---- MODULE Spec2Model ----
(***************************************************************************)
(* Resumable streaming requests of claude-code-webui:                      *)
(*   backend/handlers/chat.ts     executeClaudeCommand, handleChatRequest, *)
(*                                handleStatusRequest                      *)
(*   backend/handlers/resume.ts   handleResumeRequest                      *)
(*   streamingFileManager.ts      src/unnamed/part_002, and the copy in    *)
(*                                backend/history/conversationLoader.ts    *)
(*                                with its own getStreamingDir             *)
(*   useNetworkRecovery.ts        src/unnamed/part_000                     *)
(*   frontend/src/components/ChatPage.tsx   sendMessage                    *)
(***************************************************************************)
EXTENDS Integers, Sequences, FiniteSets, TLC

\* ------------------------------------------------------------------ bounds
\* number of /api/chat requests (controller runs) the server receives
MaxRuns == 2
\* number of claude_json messages the engine yields in one run, at most
MaxData == 2
\* largest fromIndex a resume request carries
MaxFromIndex == 4

Runs == 1..MaxRuns
RequestIds == {"r1", "r2"}
Payloads == {"a"}

\* ------------------------------------------------------ shared/types.ts
\* StreamResponse: type plus the optional data / error field
NoData == "-"
StreamResponse(t, d) == [type |-> t, data |-> d]
DoneResponse == StreamResponse("done", NoData)
AbortedResponse == StreamResponse("aborted", NoData)
ErrorResponse == StreamResponse("error", "reason")
ClaudeJson(d) == StreamResponse("claude_json", d)
MessageTypes == {"claude_json", "done", "error", "aborted"}
TerminalTypes == {"done", "error", "aborted"}
IsTerminal(m) == m.type \in TerminalTypes

\* RequestStatus
IN_PROGRESS == "in_progress"
COMPLETED == "completed"
FAILED == "failed"
ABORTED == "aborted"
NOT_FOUND == "not_found"
TerminalStatuses == {COMPLETED, FAILED, ABORTED}

\* ------------------------------------------- text of a record (NDJSON line)
\* A text is a sequence of characters; one structural token stands for each
\* run of characters that JSON.stringify emits as a unit.  "NL" is "\n".
NL == "NL"

\* JSON.stringify(message): one line, never containing a newline
Stringify(m) == <<"{", m.type, m.data, "}">>

WellFormed(line) ==
    /\ Len(line) = 4
    /\ line[1] = "{"
    /\ line[4] = "}"
    /\ line[2] \in MessageTypes

\* JSON.parse(line): the message, or a SyntaxError
SyntaxError == [type |-> "SyntaxError", data |-> NoData]
JsonParse(line) ==
    IF WellFormed(line) THEN StreamResponse(line[2], line[3]) ELSE SyntaxError

\* String.prototype.trim on a text whose only whitespace is the newline
RECURSIVE TrimLeft(_)
TrimLeft(s) ==
    IF s # <<>> /\ Head(s) = NL THEN TrimLeft(Tail(s)) ELSE s

RECURSIVE TrimRight(_)
TrimRight(s) ==
    IF s # <<>> /\ s[Len(s)] = NL THEN TrimRight(SubSeq(s, 1, Len(s) - 1)) ELSE s

Trim(s) == TrimRight(TrimLeft(s))

\* String.prototype.split("\n"): the pieces between newlines, scanning from
\* position i with the current piece starting at position start
RECURSIVE SplitFrom(_, _, _)
SplitFrom(s, start, i) ==
    IF i > Len(s) THEN <<SubSeq(s, start, Len(s))>>
    ELSE IF s[i] = NL
         THEN <<SubSeq(s, start, i - 1)>> \o SplitFrom(s, i + 1, i + 1)
         ELSE SplitFrom(s, start, i + 1)

SplitLines(s) == SplitFrom(s, 1, 1)

\* .filter((line) => line.trim())
RECURSIVE FilterNonBlank(_)
FilterNonBlank(ls) ==
    IF ls = <<>> THEN <<>>
    ELSE IF Trim(Head(ls)) = <<>> THEN FilterNonBlank(Tail(ls))
         ELSE <<Head(ls)>> \o FilterNonBlank(Tail(ls))


\* ---- streamingFileManager.ts: readStreamingFile's loop from fromIndex ----
\* for (let i = fromIndex; i < lines.length; i++) try { push(JSON.parse) }
\* i is a zero-based index into lines
\* mutant of ParseFrom: the first line that does not parse ends the read
RECURSIVE ParseFromStopsAtBadLine(_, _)
ParseFromStopsAtBadLine(lines, i) ==
    IF i >= Len(lines) THEN <<>>
    ELSE LET m == JsonParse(lines[i + 1])
         IN  IF m = SyntaxError THEN <<>>
             ELSE <<m>> \o ParseFromStopsAtBadLine(lines, i + 1)

RECURSIVE ParseFrom(_, _)
ParseFrom(lines, i) ==
    IF i >= Len(lines) THEN <<>>
    ELSE LET m == JsonParse(lines[i + 1])
         IN  (IF m = SyntaxError THEN <<>> ELSE <<m>>) \o ParseFrom(lines, i + 1)

\* ------------------------------------------------------------------ state
Null == "null"
Projects == {"p1"}

\* a path is the sequence of its segments, path.split("/"): an absolute path
\* begins with the empty segment; NoPath is the unset variable (and the throw
\* of getStreamingDir)
NoPath == <<>>

\* the process environment: which streamingFileManager the server is built
\* with, and the variables and working directory its getStreamingDir reads
\* ANTHROPIC_API_KEY: the key the server is started with, or NoKey once the
\* variable is deleted
NoKey == "undefined"
OriginalKey == "sk-original"

Env(manager, home, customDir, cwd) ==
    [manager |-> manager, HOME |-> home, CLAUDE_STREAMING_DIR |-> customDir, cwd |-> cwd,
     ANTHROPIC_API_KEY |-> OriginalKey]

\* HOME=/home/user, the layout the comment of resume.ts:33-34 describes
HomeEnv == Env("part_002", <<"", "home", "user">>, NoPath, <<"", "app">>)

Envs ==
    { HomeEnv,
      Env("part_002", <<"", "srv", "projects", "u">>, NoPath, <<"", "app">>),
      Env("part_002", NoPath, NoPath, <<"", "app">>),
      Env("conversationLoader", <<"", "home", "user">>, NoPath, <<"", "app">>),
      Env("conversationLoader", <<"", "home", "user">>, <<"", "data", "projects">>, <<"", "app">>) }

VARIABLES
    requestStatuses,          \* Map<requestId, StreamingFileInfo>: 0 absent, else the info object
    info,                     \* the StreamingFileInfo objects, one per initializeStreaming call
    env,                      \* the process environment; only ANTHROPIC_API_KEY changes
    files,                    \* the file system: path -> text, for the files that exist
    requestAbortControllers,  \* Map<requestId, AbortController>: 0 absent, else the run that made it
    aborted,                  \* signal.aborted of the AbortController each run created
    run,                      \* each executeClaudeCommand / handleChatRequest activation
                              \* (duplicate: history, the id was registered when it began;
                              \* authConfigured: history, chat.ts:117-139 has run)
    connected,                \* whether the /chat response stream of a run still has its reader
    live,                     \* what controller.enqueue has written on each /chat stream
    sweeper,                  \* the activation of cleanupExpiredFiles, when one is running
    logged,                   \* history: the messages appendTextFile has written, per requestId
    client,                   \* the browser's chat turn: sendMessage and useNetworkRecovery
    processed,                \* the lines handed to processStreamLine, in order
    net                       \* whether a fetch of the browser reaches the server

serverVars == <<env, requestStatuses, info, files, requestAbortControllers, aborted, run,
                connected, live, sweeper, logged>>
frontendVars == <<client, processed, net>>
vars == <<serverVars, frontendVars>>

\* getStreamingDir (part_002:45-54)
GetStreamingDirHome(encodedProjectName) ==
    IF env.HOME = NoPath THEN NoPath
    ELSE env.HOME \o <<".claude", "projects", encodedProjectName, "streaming">>

\* getStreamingDir (conversationLoader.ts:256-269)
GetStreamingDirCwd(encodedProjectName) ==
    IF env.CLAUDE_STREAMING_DIR # NoPath
    THEN env.CLAUDE_STREAMING_DIR \o <<encodedProjectName>>
    ELSE env.cwd \o <<".streaming", encodedProjectName>>

GetStreamingDir(encodedProjectName) ==
    IF env.manager = "part_002" THEN GetStreamingDirHome(encodedProjectName)
    ELSE GetStreamingDirCwd(encodedProjectName)

\* `${requestId}.jsonl`
FileName(requestId) == IF requestId = "r1" THEN "r1.jsonl" ELSE "r2.jsonl"

\* getStreamingFilePath (part_002:59-66)
GetStreamingFilePath(encodedProjectName, requestId) ==
    IF GetStreamingDir(encodedProjectName) = NoPath THEN NoPath
    ELSE GetStreamingDir(encodedProjectName) \o <<FileName(requestId)>>

\* runtime.exists(filePath)
Exists(filePath) == filePath \in DOMAIN files

\* readStreamingFile (part_002:132-162)
ReadStreamingFile(encodedProjectName, requestId, fromIndex) ==
    LET filePath == GetStreamingFilePath(encodedProjectName, requestId)
    IN  IF ~Exists(filePath) THEN <<>>
        ELSE ParseFrom(FilterNonBlank(SplitLines(Trim(files[filePath]))), fromIndex)

\* runtime.appendTextFile(filePath, JSON.stringify(message) + "\n"): the file
\* is created when it does not exist
AppendTextFile(filePath, m) ==
    [p \in DOMAIN files \cup {filePath} |->
        (IF p \in DOMAIN files THEN files[p] ELSE <<>>)
            \o (IF p = filePath THEN Stringify(m) \o <<NL>> ELSE <<>>)]

\* CLEANUP_INTERVAL_MS (part_002:22), the retention window and the period of
\* the sweeper's timer: the unit in which the model measures time
CLEANUP_INTERVAL_MS == 1

\* the StreamingFileInfo that initializeStreaming builds (part_002:84-90);
\* age is now.getTime() - lastUpdated.getTime(), which `lastUpdated = new
\* Date()` makes 0 and which is not counted further once it is past the window
NewInfo(filePath) ==
    [filePath |-> filePath, status |-> IN_PROGRESS, totalMessages |-> 0, age |-> 0]

\* cleanupExpiredFiles between two timer callbacks
IdleSweeper == [pc |-> "idle", expiredRequests |-> <<>>, filePath |-> NoPath]

IdleRun == [pc |-> "idle", requestId |-> "r1", encodedProjectName |-> Null,
            inCatch |-> FALSE, pending |-> DoneResponse,
            infoRef |-> 0, engine |-> "idle", produced |-> 0,
            duplicate |-> FALSE,
            authMode |-> "auto", originalApiKey |-> NoKey, authConfigured |-> FALSE]

\* the defaults of the delays, in milliseconds (part_000:117-118)
initialRetryDelay == 1000
maxRetryDelay == 30000

\* NetworkRecoveryOptions as far as calculateRetryDelay reads them
Options(initialDelay, maxDelay) ==
    [initialRetryDelay |-> initialDelay, maxRetryDelay |-> maxDelay]
DefaultOptions == Options(initialRetryDelay, maxRetryDelay)

\* no error: the null of lastError
NoError == [name |-> "none", message |-> ""]

\* NetworkRecoveryState as useState creates it (part_000:125-129)
InitialState == [isRecovering |-> FALSE, retryCount |-> 0, lastError |-> NoError]

\* sendMessage's turn: messageIndexRef is the hook's cursor, retryCount the
\* local of handleNetworkError, state the hook's NetworkRecoveryState, rx the
\* characters read from the response body.  History of the recovery sequence:
\* error is the error handed to handleNetworkError, fired the callbacks
\* called, attempts the status polls begun, polled the status last reported,
\* fromIndex the cursor the resume call in flight was issued with, isComplete
\* and resumedFrom the successful resume call.  stopped: the user has stopped
\* the turn; turn: the sendMessage calls so far; unmounted: the page is gone;
\* stoppedAt, unmountedAt: where the turn was at that moment; options: the
\* delays the hook was created with; delays: history, the delays of the retry
\* timers that have fired, where a specification follows them
IdleClient == [pc |-> "idle", requestId |-> "r1", messageIndexRef |-> 0,
               retryCount |-> 0, rx |-> 0, outcome |-> "none",
               isComplete |-> FALSE, resumedFrom |-> -1,
               state |-> InitialState, error |-> NoError, fired |-> {},
               attempts |-> 0, polled |-> "none", fromIndex |-> -1,
               stopped |-> FALSE, turn |-> 1, unmounted |-> FALSE,
               stoppedAt |-> "never", unmountedAt |-> "never",
               options |-> DefaultOptions, delays |-> <<>>]

\* the state after construction of the server and the page, in every environment
InitState ==
    /\ requestStatuses = [r \in RequestIds |-> 0]
    /\ info = [q \in Runs |-> NewInfo(NoPath)]
    /\ files = [p \in {} |-> <<>>]
    /\ sweeper = IdleSweeper
    /\ requestAbortControllers = [r \in RequestIds |-> 0]
    /\ aborted = [q \in Runs |-> FALSE]
    /\ run = [q \in Runs |-> IdleRun]
    /\ connected = [q \in Runs |-> FALSE]
    /\ live = [q \in Runs |-> <<>>]
    /\ logged = [r \in RequestIds |-> <<>>]
    /\ client = IdleClient
    /\ processed = <<>>
    /\ net = TRUE

\* ------------------------------------------------ chat.ts: one turn
\* An action is one turn of the server's event loop: from the completion of
\* an I/O wait (the request, ensureDir, the engine's next message, the file
\* append) to the next one.  What a turn does to the activation is computed
\* first: r is its new record (pc "exit" when the generator and the handler
\* have finished) and out is what the turn enqueues on the live stream.

\* requestIds are opaque client-generated strings: the first request ever made
\* is called "r1", and a later one repeats an id in use or takes the next name
UsedRequestIds == {run[q].requestId : q \in {p \in Runs : run[p].pc # "idle"}}
FreshRequestIds ==
    UsedRequestIds \cup
    (IF "r1" \notin UsedRequestIds THEN {"r1"}
     ELSE IF "r2" \notin UsedRequestIds THEN {"r2"} ELSE {})

\* a finished activation: its locals are garbage
Finished(r) == [IdleRun EXCEPT !.pc = "done", !.requestId = r.requestId,
                               !.encodedProjectName = r.encodedProjectName]

\* mutant of Exit: handleChatRequest's catch closes the stream and enqueues
\* nothing
ExitClosesSilently(r, conn, threw) ==
    [r |-> [r EXCEPT !.pc = "exit"], out |-> <<>>]

\* the generator is left: its finally block (chat.ts:222-237), then
\* handleChatRequest closes the stream, or, when an exception came out of the
\* generator or of enqueue, its catch enqueues an error first (chat.ts:281-290),
\* which fails again on a stream that has lost its reader
Exit(r, conn, threw) ==
    [r |-> [r EXCEPT !.pc = "exit"],
     out |-> IF threw /\ conn THEN <<ErrorResponse>> ELSE <<>>]

\* `yield m` received by handleChatRequest's loop (chat.ts:263-280):
\* controller.enqueue throws once the stream has lost its reader, and the
\* for-await then returns the generator, which runs only its finally block;
\* after a terminal message the generator ends by itself
EnqueueYield(r, m, conn) ==
    IF ~conn THEN Exit(r, conn, TRUE)
    ELSE IF IsTerminal(m) THEN [r |-> [r EXCEPT !.pc = "exit"], out |-> <<m>>]
    ELSE [r |-> [r EXCEPT !.pc = "pull"], out |-> <<m>>]

\* a response m has been built (chat.ts:163, 176, 187, 205): with a project it
\* is appended first, and appendMessage looks the info object up (ref, 0 when
\* there is none) before it starts the write (part_002:105-113); "not
\* initialized" is thrown in the try block and again in the catch block
Produce(r, m, ref, conn) ==
    IF r.encodedProjectName = Null THEN EnqueueYield(r, m, conn)
    ELSE IF ref = 0 THEN Exit(r, conn, TRUE)
    ELSE [r |-> [r EXCEPT !.pending = m, !.infoRef = ref, !.pc = "write"], out |-> <<>>]

\* the catch block (chat.ts:184-221): the aborted or the error response
CatchBlock(r, isAbortError, ref, conn) ==
    Produce([r EXCEPT !.inCatch = TRUE],
            IF isAbortError THEN AbortedResponse ELSE ErrorResponse, ref, conn)

\* an exception at an await of the generator that is no AbortError: caught
\* when raised in the try block, else it leaves the generator
Throw(r, ref, conn) ==
    IF r.inCatch THEN Exit(r, conn, TRUE) ELSE CatchBlock(r, FALSE, ref, conn)

\* the authentication block (chat.ts:117-139) of activation r when the
\* environment holds key: api_key mode throws without a key, subscription
\* mode saves the key and deletes the variable, any other mode does nothing
AuthModes == {"auto", "subscription", "api_key"}

ConfigureAuth(r, key) ==
    IF r.authMode = "api_key"
    THEN [r |-> [r EXCEPT !.authConfigured = TRUE], key |-> key, threw |-> key = NoKey]
    ELSE IF r.authMode = "subscription"
    THEN [r |-> [r EXCEPT !.authConfigured = TRUE, !.originalApiKey = key],
          key |-> NoKey, threw |-> FALSE]
    ELSE [r |-> [r EXCEPT !.authConfigured = TRUE], key |-> key, threw |-> FALSE]

\* the key after the generator's finally block (chat.ts:222-231)
RestoreApiKey(r, key) ==
    IF r.authMode = "subscription" /\ r.originalApiKey # NoKey THEN r.originalApiKey ELSE key

\* mutant of Commit: the generator's finally block leaves the AbortController
\* in the map
CommitKeepsController(q, res) ==
    LET exits == res.r.pc = "exit"
    IN  /\ run' = [run EXCEPT ![q] = IF exits THEN Finished(res.r) ELSE res.r]
        /\ live' = [live EXCEPT ![q] = @ \o res.out]
        /\ requestAbortControllers' = requestAbortControllers
        /\ env' = IF exits
                  THEN [env EXCEPT !.ANTHROPIC_API_KEY = RestoreApiKey(res.r, @)]
                  ELSE env
        /\ connected' = IF exits THEN [connected EXCEPT ![q] = FALSE] ELSE connected
        /\ aborted' = IF exits THEN [aborted EXCEPT ![q] = FALSE] ELSE aborted

\* the state after a turn of activation q with result res
Commit(q, res) ==
    LET exits == res.r.pc = "exit"
        rid == run[q].requestId
    IN  /\ run' = [run EXCEPT ![q] = IF exits THEN Finished(res.r) ELSE res.r]
        /\ live' = [live EXCEPT ![q] = @ \o res.out]
        /\ requestAbortControllers' =
               IF exits THEN [requestAbortControllers EXCEPT ![rid] = 0]
               ELSE requestAbortControllers
        /\ env' = IF exits
                  THEN [env EXCEPT !.ANTHROPIC_API_KEY = RestoreApiKey(res.r, @)]
                  ELSE env
        /\ connected' = IF exits THEN [connected EXCEPT ![q] = FALSE] ELSE connected
        /\ aborted' = IF exits THEN [aborted EXCEPT ![q] = FALSE] ELSE aborted

\* ------------------------------------------------------- chat.ts: actions
\* POST /api/chat: handleChatRequest starts the generator, which stores its
\* AbortController under requestId (chat.ts:104-105) and runs to its first
\* wait: ensureDir with a project (chat.ts:108-109), else the engine
ChatRequestArrivesAs(q, rid, wd, authMode) ==
    /\ run[q].pc = "idle"
    /\ \A p \in Runs : p < q => run[p].pc # "idle"
    /\ rid \in FreshRequestIds
    /\ LET r == [run[q] EXCEPT !.requestId = rid,
                               !.encodedProjectName = wd,
                               !.engine = "running",
                               !.duplicate = (requestStatuses[rid] # 0),
                               !.authMode = authMode]
           auth == ConfigureAuth(r, env.ANTHROPIC_API_KEY)
           caught == CatchBlock(auth.r, FALSE, 0, TRUE)
       IN  IF wd # Null
           THEN /\ run' = [run EXCEPT ![q] = [r EXCEPT !.pc = "init"]]
                /\ requestAbortControllers' = [requestAbortControllers EXCEPT ![rid] = q]
                /\ connected' = [connected EXCEPT ![q] = TRUE]
                /\ UNCHANGED <<env, live>>
           ELSE IF auth.threw
           THEN /\ run' = [run EXCEPT ![q] = Finished(caught.r)]
                /\ live' = [live EXCEPT ![q] = @ \o caught.out]
                /\ requestAbortControllers' = [requestAbortControllers EXCEPT ![rid] = 0]
                /\ UNCHANGED <<env, connected>>
           ELSE /\ run' = [run EXCEPT ![q] = [auth.r EXCEPT !.pc = "pull"]]
                /\ requestAbortControllers' = [requestAbortControllers EXCEPT ![rid] = q]
                /\ connected' = [connected EXCEPT ![q] = TRUE]
                /\ env' = [env EXCEPT !.ANTHROPIC_API_KEY = auth.key]
                /\ UNCHANGED live
    /\ UNCHANGED <<requestStatuses, info, files, aborted, sweeper, logged>>

\* a request that names no authMode
ChatRequestArrives(q, rid, wd) == ChatRequestArrivesAs(q, rid, wd, "auto")

HandleChatRequest(q, rid, wd) ==
    /\ ChatRequestArrives(q, rid, wd)
    /\ UNCHANGED frontendVars

\* initializeStreaming after ensureDir (part_002:79-92): the registry entry is
\* set to a fresh in_progress info, and the generator goes on through its
\* authentication block to the engine (chat.ts:112-144); ensureDir may fail
\* instead
InitializeStreaming(q) ==
    /\ run[q].pc = "init"
    /\ \E ok \in {GetStreamingDir(run[q].encodedProjectName) # NoPath, FALSE} :
         IF ok
         THEN /\ requestStatuses' = [requestStatuses EXCEPT ![run[q].requestId] = q]
              /\ info' = [info EXCEPT ![q] =
                     NewInfo(GetStreamingFilePath(run[q].encodedProjectName, run[q].requestId))]
              /\ LET auth == ConfigureAuth(run[q], env.ANTHROPIC_API_KEY)
                 IN  IF auth.threw
                     THEN Commit(q, Throw(auth.r, q, connected[q]))
                     ELSE /\ run' = [run EXCEPT ![q] = [auth.r EXCEPT !.pc = "pull"]]
                          /\ env' = [env EXCEPT !.ANTHROPIC_API_KEY = auth.key]
                          /\ UNCHANGED <<requestAbortControllers, aborted, connected, live>>
         ELSE /\ Commit(q, Throw(run[q], requestStatuses[run[q].requestId], connected[q]))
              /\ UNCHANGED <<requestStatuses, info>>
    /\ UNCHANGED <<files, logged>>
    /\ UNCHANGED <<sweeper, frontendVars>>

\* one step of `for await (const sdkMessage of query(...))` (chat.ts:144-183):
\* the engine yields a message, ends, acknowledges an abort, or fails
PullData(q) ==
    /\ run[q].pc = "pull"
    /\ run[q].produced < MaxData
    /\ \E d \in Payloads :
         Commit(q, Produce([run[q] EXCEPT !.produced = @ + 1], ClaudeJson(d),
                           requestStatuses[run[q].requestId], connected[q]))
    /\ UNCHANGED <<requestStatuses, info, files, logged>>
    /\ UNCHANGED <<sweeper, frontendVars>>

PullEnd(q) ==
    /\ run[q].pc = "pull"
    /\ Commit(q, Produce([run[q] EXCEPT !.engine = "ended"], DoneResponse,
                         requestStatuses[run[q].requestId], connected[q]))
    /\ UNCHANGED <<requestStatuses, info, files, logged>>
    /\ UNCHANGED <<sweeper, frontendVars>>

PullAbortError(q) ==
    /\ run[q].pc = "pull"
    /\ aborted[q]
    /\ Commit(q, CatchBlock([run[q] EXCEPT !.engine = "aborted"], TRUE,
                            requestStatuses[run[q].requestId], connected[q]))
    /\ UNCHANGED <<requestStatuses, info, files, logged>>
    /\ UNCHANGED <<sweeper, frontendVars>>

PullError(q) ==
    /\ run[q].pc = "pull"
    /\ Commit(q, CatchBlock([run[q] EXCEPT !.engine = "failed"], FALSE,
                            requestStatuses[run[q].requestId], connected[q]))
    /\ UNCHANGED <<requestStatuses, info, files, logged>>
    /\ UNCHANGED <<sweeper, frontendVars>>

\* mutant of AppendMessageWrite: totalMessages is incremented before the write
\* has returned, so that a failed write leaves it counted
AppendMessageWriteCountsFirst(q) ==
    /\ run[q].pc = "write"
    /\ \E ok \in BOOLEAN :
         IF ok
         THEN /\ files' = AppendTextFile(GetStreamingFilePath(run[q].encodedProjectName,
                                                              run[q].requestId),
                                         run[q].pending)
              /\ logged' = [logged EXCEPT ![run[q].requestId] = Append(@, run[q].pending)]
              /\ run' = [run EXCEPT ![q].pc = "update"]
              /\ UNCHANGED <<env, requestAbortControllers, aborted, connected, live, info>>
         ELSE /\ Commit(q, Throw(run[q], requestStatuses[run[q].requestId], connected[q]))
              /\ info' = [info EXCEPT ![run[q].infoRef].totalMessages = @ + 1]
              /\ UNCHANGED <<files, logged>>
    /\ UNCHANGED requestStatuses
    /\ UNCHANGED <<sweeper, frontendVars>>

\* `await runtime.appendTextFile` (part_002:112-113): the line reaches the
\* file, and appendMessage resumes in a later turn; or the write fails
AppendMessageWrite(q) ==
    /\ run[q].pc = "write"
    /\ \E ok \in BOOLEAN :
         IF ok
         THEN /\ files' = AppendTextFile(GetStreamingFilePath(run[q].encodedProjectName,
                                                              run[q].requestId),
                                         run[q].pending)
              /\ logged' = [logged EXCEPT ![run[q].requestId] = Append(@, run[q].pending)]
              /\ run' = [run EXCEPT ![q].pc = "update"]
              /\ UNCHANGED <<env, requestAbortControllers, aborted, connected, live>>
         ELSE /\ Commit(q, Throw(run[q], requestStatuses[run[q].requestId], connected[q]))
              /\ UNCHANGED <<files, logged>>
    /\ UNCHANGED <<requestStatuses, info>>
    /\ UNCHANGED <<sweeper, frontendVars>>

\* info.status after a message of this type (part_002:119-126)
StatusAfter(status, m) ==
    IF m.type = "done" THEN COMPLETED
    ELSE IF m.type = "error" THEN FAILED
    ELSE IF m.type = "aborted" THEN ABORTED
    ELSE status

\* the info object after appendMessage's update (part_002:115-126)
UpdatedInfo(i, m) ==
    [i EXCEPT !.status = StatusAfter(i.status, m), !.totalMessages = @ + 1, !.age = 0]

\* the rest of appendMessage (part_002:115-126), on the info object looked up
\* before the write, then the yield of the appended response
AppendMessageUpdate(q) ==
    /\ run[q].pc = "update"
    /\ info' = [info EXCEPT ![run[q].infoRef] = UpdatedInfo(@, run[q].pending)]
    /\ Commit(q, EnqueueYield(run[q], run[q].pending, connected[q]))
    /\ UNCHANGED <<requestStatuses, files, logged>>
    /\ UNCHANGED <<sweeper, frontendVars>>

\* the client of a /chat stream goes away (connection reset, reader cancelled)
Disconnect(q) ==
    /\ run[q].pc \notin {"idle", "done"}
    /\ connected[q]
    /\ connected' = [connected EXCEPT ![q] = FALSE]
    /\ UNCHANGED <<requestStatuses, info, files, requestAbortControllers, aborted, run,
                   live, logged>>
    /\ UNCHANGED <<env, sweeper, frontendVars>>

\* POST /api/abort: signals the controller stored under requestId, if any
HandleAbortRequest(rid) ==
    /\ requestAbortControllers[rid] # 0
    /\ ~aborted[requestAbortControllers[rid]]
    /\ aborted' = [aborted EXCEPT ![requestAbortControllers[rid]] = TRUE]
    /\ UNCHANGED <<requestStatuses, info, files, requestAbortControllers, run,
                   connected, live, logged>>
    /\ UNCHANGED <<env, sweeper, frontendVars>>

Next ==
    \/ \E q \in Runs, rid \in RequestIds, wd \in Projects \cup {Null} :
           HandleChatRequest(q, rid, wd)
    \/ \E q \in Runs : InitializeStreaming(q)
    \/ \E q \in Runs : PullData(q)
    \/ \E q \in Runs : PullEnd(q)
    \/ \E q \in Runs : PullAbortError(q)
    \/ \E q \in Runs : PullError(q)
    \/ \E q \in Runs : AppendMessageWrite(q)
    \/ \E q \in Runs : AppendMessageUpdate(q)
    \/ \E q \in Runs : Disconnect(q)
    \/ \E rid \in RequestIds : HandleAbortRequest(rid)

\* the server started with HOME=/home/user
Init == env = HomeEnv /\ InitState

Spec == Init /\ [][Next]_vars

\* the server started in any of the environments
InitEnvs == env \in Envs /\ InitState

SpecEnvs == InitEnvs /\ [][Next]_vars

\* ------------------------------------------ status and resume handlers
Registered(rid) == requestStatuses[rid] # 0

\* getRequestStatus (part_002:167-169): the live info object, or null
GetRequestStatus(rid) == info[requestStatuses[rid]]

\* mutant of HandleStatusRequest: an unknown requestId is answered with an
\* error, as handleResumeRequest does
HandleStatusRequestRejectsUnknown(rid) ==
    IF ~Registered(rid)
    THEN [code |-> 404, requestId |-> rid, status |-> NOT_FOUND, totalMessages |-> 0]
    ELSE [code |-> 200, requestId |-> rid, status |-> GetRequestStatus(rid).status,
          totalMessages |-> GetRequestStatus(rid).totalMessages]

\* handleStatusRequest (chat.ts:317-346): c.json(response) answers 200; the
\* lastUpdated of the answer is left out
HandleStatusRequest(rid) ==
    IF ~Registered(rid)
    THEN [code |-> 200, requestId |-> rid, status |-> NOT_FOUND, totalMessages |-> 0]
    ELSE [code |-> 200, requestId |-> rid, status |-> GetRequestStatus(rid).status,
          totalMessages |-> GetRequestStatus(rid).totalMessages]

\* --------------------------------- streamingFileManager.ts: the sweeper
\* the entries the first loop of cleanupExpiredFiles collects (part_002:179-187)
ExpiredRequests ==
    {rid \in RequestIds :
        /\ Registered(rid)
        /\ GetRequestStatus(rid).age > CLEANUP_INTERVAL_MS
        /\ GetRequestStatus(rid).status # IN_PROGRESS}

\* the orders in which a Map can hand out the keys in S
Orders(S) ==
    {o \in [1..Cardinality(S) -> S] : \A i, j \in 1..Cardinality(S) : o[i] = o[j] => i = j}

\* the second loop of cleanupExpiredFiles (part_002:190-200) up to its next
\* await: ids without an entry in `statuses` are passed over, and the file of
\* the first entry found is about to be removed
RECURSIVE SweepFrom(_, _)
SweepFrom(requestIds, statuses) ==
    IF requestIds = <<>> THEN IdleSweeper
    ELSE IF statuses[Head(requestIds)] = 0 THEN SweepFrom(Tail(requestIds), statuses)
    ELSE [pc |-> "remove", expiredRequests |-> requestIds,
          filePath |-> info[statuses[Head(requestIds)]].filePath]

\* the timer of startCleanupInterval fires (part_002:27-33) while no earlier
\* callback is running: cleanupExpiredFiles up to its first await
CleanupExpiredFiles ==
    /\ sweeper.pc = "idle"
    /\ \E order \in Orders(ExpiredRequests) : sweeper' = SweepFrom(order, requestStatuses)
    /\ UNCHANGED <<env, requestStatuses, info, files, requestAbortControllers, aborted, run,
                   connected, live, logged>>
    /\ UNCHANGED frontendVars

\* runtime.remove(path): the file is gone, or the removal fails
Remove(path, ok) ==
    IF ok THEN [p \in DOMAIN files \ {path} |-> files[p]] ELSE files

\* mutant of RemoveReturns: an entry whose file could not be removed is kept
RemoveReturnsKeepsFailed ==
    /\ sweeper.pc = "remove"
    /\ \E ok \in BOOLEAN :
         /\ files' = Remove(sweeper.filePath, ok)
         /\ logged' = [r \in RequestIds |->
                          IF ok /\ sweeper.filePath = GetStreamingFilePath("p1", r)
                          THEN <<>> ELSE logged[r]]
         /\ requestStatuses' = IF ok
                                THEN [requestStatuses EXCEPT ![Head(sweeper.expiredRequests)] = 0]
                                ELSE requestStatuses
    /\ sweeper' = SweepFrom(Tail(sweeper.expiredRequests), requestStatuses')
    /\ UNCHANGED <<env, info, requestAbortControllers, aborted, run, connected, live>>
    /\ UNCHANGED frontendVars

\* `await runtime.remove(info.filePath)` returns or throws (part_002:193-197):
\* the entry now stored under the id is deleted (part_002:198), and the loop
\* goes on to its next await
RemoveReturns ==
    /\ sweeper.pc = "remove"
    /\ \E ok \in BOOLEAN :
         /\ files' = Remove(sweeper.filePath, ok)
         /\ logged' = [r \in RequestIds |->
                          IF ok /\ sweeper.filePath = GetStreamingFilePath("p1", r)
                          THEN <<>> ELSE logged[r]]
    /\ requestStatuses' = [requestStatuses EXCEPT ![Head(sweeper.expiredRequests)] = 0]
    /\ sweeper' = SweepFrom(Tail(sweeper.expiredRequests), requestStatuses')
    /\ UNCHANGED <<env, info, requestAbortControllers, aborted, run, connected, live>>
    /\ UNCHANGED frontendVars

\* time passes: every registered entry that is not yet past the retention
\* window grows older by one unit
TimePasses ==
    /\ \E rid \in RequestIds :
          Registered(rid) /\ GetRequestStatus(rid).age <= CLEANUP_INTERVAL_MS
    /\ info' = [q \in Runs |->
                  IF (\E rid \in RequestIds : requestStatuses[rid] = q)
                     /\ info[q].age <= CLEANUP_INTERVAL_MS
                  THEN [info[q] EXCEPT !.age = @ + 1] ELSE info[q]]
    /\ UNCHANGED <<env, requestStatuses, files, requestAbortControllers, aborted, run,
                   connected, live, sweeper, logged>>
    /\ UNCHANGED frontendVars

\* the server with the sweeper's timer started
SweepNext ==
    \/ \E q \in Runs, rid \in RequestIds, wd \in Projects \cup {Null} : HandleChatRequest(q, rid, wd)
    \/ \E q \in Runs : InitializeStreaming(q)
    \/ \E q \in Runs : PullData(q)
    \/ \E q \in Runs : PullEnd(q)
    \/ \E q \in Runs : PullError(q)
    \/ \E q \in Runs : AppendMessageWrite(q)
    \/ \E q \in Runs : AppendMessageUpdate(q)
    \/ TimePasses
    \/ CleanupExpiredFiles
    \/ RemoveReturns

SpecSweep == Init /\ [][SweepNext]_vars

\* a step of run q after its request was accepted
RunStep(q) ==
    \/ InitializeStreaming(q)
    \/ PullData(q)
    \/ PullEnd(q)
    \/ PullError(q)
    \/ AppendMessageWrite(q)
    \/ AppendMessageUpdate(q)

\* the same server where time passes, the interval timer keeps firing, every
\* awaited removal returns, and every accepted run is carried on to its end
SpecSweepFair ==
    /\ Init /\ [][SweepNext]_vars
    /\ WF_vars(TimePasses)
    /\ WF_vars(CleanupExpiredFiles)
    /\ WF_vars(RemoveReturns)
    /\ \A q \in Runs : WF_vars(RunStep(q))

\* pathParts.indexOf(x): the zero-based index of the first x, or -1
IndexOf(pathParts, x) ==
    IF \E i \in 1..Len(pathParts) : pathParts[i] = x
    THEN (CHOOSE i \in 1..Len(pathParts) :
              /\ pathParts[i] = x
              /\ \A j \in 1..(i - 1) : pathParts[j] # x) - 1
    ELSE -1

\* c.json({ error }, code)
ErrorAnswer(code) ==
    [code |-> code, messages |-> <<>>, totalMessages |-> 0, isComplete |-> FALSE]

\* handleResumeRequest (resume.ts:17-62), with no append between its steps
\* and a file system that reads without error
HandleResumeRequest(rid, fromIndex) ==
    IF ~Registered(rid)
    THEN ErrorAnswer(404)
    ELSE LET status == GetRequestStatus(rid)
             pathParts == status.filePath
             projectsIndex == IndexOf(pathParts, "projects")
         IN  IF projectsIndex = -1 \/ projectsIndex + 2 >= Len(pathParts)
             THEN ErrorAnswer(500)
             ELSE [code |-> 200,
                   messages |-> ReadStreamingFile(pathParts[projectsIndex + 2], rid, fromIndex),
                   totalMessages |-> status.totalMessages,
                   isComplete |-> status.status # IN_PROGRESS]

\* the log of a request: the file its controller appends to
Log(rid) == ReadStreamingFile("p1", rid, 0)

IsPrefix(s, t) == Len(s) <= Len(t) /\ s = SubSeq(t, 1, Len(s))

Started(q) == run[q].pc # "idle"
Running(q) == run[q].pc \notin {"idle", "done"}

\* ------------------------------------------- useNetworkRecovery.ts (part_000)
\* retry budget of one recovery sequence (part_000:116)
maxRetries == 5

\* Math.pow(2, n) for a retry count
RECURSIVE Pow2(_)
Pow2(n) == IF n = 0 THEN 1 ELSE 2 * Pow2(n - 1)

\* mutant of CalculateRetryDelay: the exponent is the number of the attempt
\* that failed, one less than the raised counter
CalculateRetryDelayFromOne(options, retryCount, random) ==
    LET backoff == options.initialRetryDelay * Pow2(retryCount - 1)
        delay == IF backoff < options.maxRetryDelay THEN backoff ELSE options.maxRetryDelay
    IN  delay + random

\* calculateRetryDelay (part_000:156-166); random is the whole milliseconds of
\* Math.random() * 1000
CalculateRetryDelay(options, retryCount, random) ==
    LET backoff == options.initialRetryDelay * Pow2(retryCount)
        delay == IF backoff < options.maxRetryDelay THEN backoff ELSE options.maxRetryDelay
    IN  delay + random

\* what a failed fetch or a failed read of the response body throws, and what
\* the hook itself throws on a bad answer
Errors ==
    {[name |-> "TypeError", message |-> "Failed to fetch"],
     [name |-> "TypeError", message |-> "Load failed"],
     [name |-> "Error", message |-> "Status check failed"],
     [name |-> "Error", message |-> "Request not found"],
     [name |-> "Error", message |-> "Resume failed"]}
TransportErrors == {e \in Errors : e.name = "TypeError"}

\* isNetworkError (part_000:138-151): a TypeError whose message holds one of
\* the listed texts
NetworkErrorMessages ==
    {"Failed to fetch", "NetworkError", "Network request failed",
     "ERR_INTERNET_DISCONNECTED", "ERR_NETWORK_CHANGED"}
IsNetworkError(e) == e.name = "TypeError" /\ e.message \in NetworkErrorMessages

\* the characters handleChatRequest has written on a stream (chat.ts:277-278)
RECURSIVE StreamText(_)
StreamText(ms) ==
    IF ms = <<>> THEN <<>> ELSE Stringify(Head(ms)) \o <<NL>> \o StreamText(Tail(ms))

\* recovery gives up (part_000:247-255, 297-306): the state is reset,
\* onRecoveryFailed is called and false is returned, with which sendMessage
\* ends the turn (ChatPage.tsx:254-266)
RecoveryFails(c) ==
    [c EXCEPT !.state.isRecovering = FALSE, !.state.retryCount = 0,
              !.fired = @ \cup {"onRecoveryFailed"},
              !.pc = "done", !.outcome = "failed"]

\* mutant of RecoveryCatch: every error is retried
RecoveryCatchRetriesAll(c, e) ==
    [c EXCEPT !.retryCount = @ + 1, !.pc = "timer"]

\* the catch of attemptRecovery (part_000:296-317)
RecoveryCatch(c, e) ==
    IF ~IsNetworkError(e) THEN RecoveryFails(c)
    ELSE [c EXCEPT !.retryCount = @ + 1, !.pc = "timer"]

\* mutant of BeginAttempt: the state shows the number of failed attempts
BeginAttemptShowsFailures(c) ==
    [c EXCEPT !.state.isRecovering = TRUE, !.state.retryCount = c.retryCount,
              !.fired = @ \cup (IF c.retryCount = 0 THEN {"onRecoveryStart"} ELSE {}),
              !.attempts = @ + 1,
              !.pc = "status"]

\* an attempt begins (part_000:257-269)
BeginAttempt(c) ==
    [c EXCEPT !.state.isRecovering = TRUE, !.state.retryCount = c.retryCount + 1,
              !.fired = @ \cup (IF c.retryCount = 0 THEN {"onRecoveryStart"} ELSE {}),
              !.attempts = @ + 1,
              !.pc = "status"]

\* mutant of AttemptRecovery: the budget is compared with > instead of >=
AttemptRecoveryOneMore(c) ==
    IF c.retryCount > maxRetries THEN RecoveryFails(c) ELSE BeginAttempt(c)

\* mutant of AttemptRecovery: with the budget used up the timer is armed again
AttemptRecoveryNeverGivesUp(c) ==
    IF c.retryCount >= maxRetries THEN [c EXCEPT !.pc = "timer"] ELSE BeginAttempt(c)

\* attemptRecovery up to its status fetch (part_000:246-269)
AttemptRecovery(c) ==
    IF c.retryCount >= maxRetries THEN RecoveryFails(c) ELSE BeginAttempt(c)

\* mutant of HandleNetworkError: lastError is recorded before the error is
\* classified
HandleNetworkErrorRecordsFirst(c, e) ==
    IF ~IsNetworkError(e)
    THEN [c EXCEPT !.error = e, !.state.lastError = e, !.pc = "done", !.outcome = "failed"]
    ELSE AttemptRecovery([c EXCEPT !.error = e, !.state.lastError = e,
                                   !.fired = @ \cup {"onNetworkError"},
                                   !.retryCount = 0])

\* handleNetworkError (part_000:221-321): an error that is no network error
\* returns false at once; else lastError is set, onNetworkError is called and
\* the first attempt starts with retryCount 0
HandleNetworkError(c, e) ==
    IF ~IsNetworkError(e)
    THEN [c EXCEPT !.error = e, !.pc = "done", !.outcome = "failed"]
    ELSE AttemptRecovery([c EXCEPT !.error = e, !.state.lastError = e,
                                   !.fired = @ \cup {"onNetworkError"},
                                   !.retryCount = 0])

\* the lines of one chunk (ChatPage.tsx:224-225)
ChunkLines(chunk) == FilterNonBlank(SplitLines(chunk))

\* --------------------------------------------- ChatPage.tsx: sendMessage
\* the activation that serves the browser's request
ClientRun == CHOOSE q \in Runs : \A p \in Runs : q <= p

\* sendMessage (ChatPage.tsx:150-213): tracking is reset and the POST reaches
\* the server, which starts the stream
SendMessage(wd) ==
    /\ client.pc = "idle"
    /\ net
    /\ ChatRequestArrives(ClientRun, client.requestId, wd)
    /\ client' = [client EXCEPT !.pc = "streaming", !.messageIndexRef = 0]
    /\ UNCHANGED <<processed, net>>

\* the POST fails: fetch throws, and the catch tries recovery (ChatPage.tsx:238-252)
SendMessageFails ==
    /\ client.pc = "idle"
    /\ ~net
    /\ \E e \in TransportErrors :
         client' = HandleNetworkError([client EXCEPT !.messageIndexRef = 0], e)
    /\ UNCHANGED <<serverVars, processed, net>>

\* one reader.read() (ChatPage.tsx:220-237): the transport hands over the next
\* characters of the body in a chunk of any size; each non-blank line of the
\* chunk is tracked (part_000:201-209) and handed to processStreamLine
ReadChunk ==
    /\ client.pc = "streaming"
    /\ LET text == StreamText(live[ClientRun])
       IN  \E n \in 1..(Len(text) - client.rx) :
             LET lines == ChunkLines(SubSeq(text, client.rx + 1, client.rx + n))
             IN  /\ client' = [client EXCEPT !.rx = @ + n,
                                             !.messageIndexRef = @ + Len(lines)]
                 /\ processed' = processed \o lines
    /\ UNCHANGED <<serverVars, net>>

\* reader.read() reports the end of the body: the turn is over
ReadDone ==
    /\ client.pc = "streaming"
    /\ run[ClientRun].pc = "done"
    /\ client.rx = Len(StreamText(live[ClientRun]))
    /\ client' = [client EXCEPT !.pc = "done", !.outcome = "completed"]
    /\ UNCHANGED <<serverVars, processed, net>>

\* the connection breaks under the open stream: reader.read() throws, what
\* was not read is lost, and the catch tries recovery (ChatPage.tsx:238-252)
ReadFails ==
    /\ client.pc = "streaming"
    /\ run[ClientRun].pc # "done" \/ client.rx < Len(StreamText(live[ClientRun]))
    /\ net' = FALSE
    /\ \E e \in TransportErrors : client' = HandleNetworkError(client, e)
    /\ UNCHANGED <<serverVars, processed>>

\* the answer to checkRequestStatus (part_000:269-274), or its failure
StatusPolled ==
    /\ client.pc = "status"
    /\ IF net
       THEN LET status == HandleStatusRequest(client.requestId)
                c == [client EXCEPT !.polled = status.status]
            IN  client' = IF status.code # 200
                          THEN RecoveryCatch(c, [name |-> "Error", message |-> "Status check failed"])
                          ELSE IF status.status = NOT_FOUND
                          THEN RecoveryCatch(c, [name |-> "Error", message |-> "Request not found"])
                          ELSE [c EXCEPT !.pc = "resume", !.fromIndex = c.messageIndexRef]
       ELSE \E e \in TransportErrors : client' = RecoveryCatch(client, e)
    /\ UNCHANGED <<serverVars, processed, net>>

\* the answer to resumeStreaming(requestId, messageIndexRef.current)
\* (part_000:277-295): the messages are handed over (ChatPage.tsx:245-251)
\* and the recovery has succeeded; or the call fails
RECURSIVE StringifyAll(_)
StringifyAll(ms) ==
    IF ms = <<>> THEN <<>> ELSE <<Stringify(Head(ms))>> \o StringifyAll(Tail(ms))

ResumeAnswered ==
    /\ client.pc = "resume"
    /\ IF net
       THEN LET resp == HandleResumeRequest(client.requestId, client.fromIndex)
            IN  IF resp.code # 200
                THEN /\ client' = RecoveryCatch(client, [name |-> "Error", message |-> "Resume failed"])
                     /\ UNCHANGED processed
                ELSE /\ processed' = processed \o StringifyAll(resp.messages)
                     /\ client' = [client EXCEPT !.pc = "done", !.outcome = "recovered",
                                                 !.state = InitialState,
                                                 !.fired = @ \cup {"onRecoverySuccess"} \cup
                                                     (IF resp.messages # <<>>
                                                      THEN {"onResumeMessages"} ELSE {}),
                                                 !.isComplete = resp.isComplete,
                                                 !.resumedFrom = client.fromIndex]
       ELSE /\ \E e \in TransportErrors : client' = RecoveryCatch(client, e)
            /\ UNCHANGED processed
    /\ UNCHANGED <<serverVars, net>>

\* the retry timer fires (part_000:313-316)
RetryTimerFires ==
    /\ client.pc = "timer"
    /\ client' = AttemptRecovery(client)
    /\ UNCHANGED <<serverVars, processed, net>>

\* the network between browser and server comes back, or goes away again
NetworkChanges ==
    /\ client.pc \in {"idle", "status", "resume", "timer"}
    /\ net' = ~net
    /\ UNCHANGED <<serverVars, client, processed>>

\* the server meets the broken connection of the client's stream
ServerSeesDisconnect ==
    /\ client.pc \notin {"idle", "streaming"}
    /\ Disconnect(ClientRun)

\* one browser turn against the server that serves it
ClientNext ==
    \/ \E wd \in Projects \cup {Null} : SendMessage(wd)
    \/ SendMessageFails
    \/ ReadChunk
    \/ ReadDone
    \/ ReadFails
    \/ StatusPolled
    \/ ResumeAnswered
    \/ RetryTimerFires
    \/ NetworkChanges
    \/ ServerSeesDisconnect
    \/ InitializeStreaming(ClientRun)
    \/ PullData(ClientRun)
    \/ PullEnd(ClientRun)
    \/ PullAbortError(ClientRun)
    \/ PullError(ClientRun)
    \/ AppendMessageWrite(ClientRun)
    \/ AppendMessageUpdate(ClientRun)
    \/ HandleAbortRequest(client.requestId)

SpecClient == Init /\ [][ClientNext]_vars

\* ------------------------------- ChatPage.tsx: stop, next send, unmount
\* isLoading of useChatState: set by startRequest (ChatPage.tsx:173), reset
\* by resetRequestState when the turn ends (ChatPage.tsx:123, 263-267) or is
\* stopped
IsLoading(c) == c.pc \notin {"idle", "done"} /\ ~c.stopped

\* handleAbort (ChatPage.tsx:297-299): abortRequest ends with
\* resetRequestState; the abort request it posts is HandleAbortRequest.
\* Nothing of it reaches retryTimeoutRef or the calls of attemptRecovery
UserStops ==
    /\ client.turn = 1
    /\ IsLoading(client)
    /\ client' = [client EXCEPT !.stopped = TRUE, !.stoppedAt = client.pc]
    /\ UNCHANGED <<serverVars, processed, net>>

\* lines the next turn tracks, at most
MaxNewLines == 2

\* the next sendMessage (ChatPage.tsx:150-175) after a stop: it passes the
\* isLoading guard and resets the cursor the hook shares between turns
\* (part_000:214-216); it clears no timer.  Its request has a requestId of its
\* own and is served by another activation
NewSend ==
    /\ client.turn = 1
    /\ client.stopped
    /\ client' = [client EXCEPT !.turn = 2, !.messageIndexRef = 0]
    /\ UNCHANGED <<serverVars, processed, net>>

\* the next turn tracks a line of its stream (ChatPage.tsx:231, part_000:201-209)
NewTurnTracks ==
    /\ client.turn = 2
    /\ client.messageIndexRef < MaxNewLines
    /\ client' = [client EXCEPT !.messageIndexRef = @ + 1]
    /\ UNCHANGED <<serverVars, processed, net>>

\* cleanup (part_000:339-345), run when the page unmounts (ChatPage.tsx:128-132):
\* a pending timer is cleared, so that its promise never resolves, and the
\* cursor is reset
Cleanup(c) ==
    [c EXCEPT !.unmounted = TRUE,
              !.unmountedAt = c.pc,
              !.pc = IF c.pc = "timer" THEN "cancelled" ELSE c.pc,
              !.messageIndexRef = 0]

Unmount ==
    /\ ~client.unmounted
    /\ client' = Cleanup(client)
    /\ UNCHANGED <<serverVars, processed, net>>

\* a browser turn whose stream breaks before its first chunk is read, and its
\* recovery, without the abort endpoint
RecoveryNext ==
    \/ \E wd \in Projects \cup {Null} : SendMessage(wd)
    \/ SendMessageFails
    \/ ReadFails
    \/ StatusPolled
    \/ ResumeAnswered
    \/ RetryTimerFires
    \/ NetworkChanges
    \/ ServerSeesDisconnect
    \/ InitializeStreaming(ClientRun)
    \/ PullData(ClientRun)
    \/ PullEnd(ClientRun)
    \/ PullError(ClientRun)
    \/ AppendMessageWrite(ClientRun)
    \/ AppendMessageUpdate(ClientRun)

\* the turn with a user who can stop it and send again
StopNext ==
    \/ RecoveryNext
    \/ HandleAbortRequest(client.requestId)
    \/ PullAbortError(ClientRun)
    \/ UserStops
    \/ NewSend
    \/ NewTurnTracks

SpecStop == Init /\ [][StopNext]_vars

\* the turn on a page that can unmount at any moment
UnmountNext ==
    \/ RecoveryNext
    \/ Unmount

SpecUnmount == Init /\ [][UnmountNext]_vars

\* the same turn when every status and resume call returns or fails and every
\* retry timer fires (part_000:269-280, 313-316); the network and the server
\* may do anything.  ResumeAnswered is enabled exactly when a resume call is
\* in flight and always leaves that position, so its weak fairness is written
\* out with the position in place of ENABLED
ResumeInFlight == client.pc = "resume"

SpecRecoveryFair ==
    /\ Init
    /\ [][RecoveryNext]_vars
    /\ WF_vars(StatusPolled)
    /\ WF_vars(RetryTimerFires)
    /\ ([]<>(~ResumeInFlight) \/ []<><<ResumeAnswered>>_vars)

\* ------------------------------------------ cleanupAllStreamingFiles
\* a server that serves two projects
TwoProjects == {"p1", "p2"}

\* a path inside a directory
IsUnder(path, dir) == IsPrefix(dir, path)

\* runtime.removeDir(dir): the directory goes with all its files, or the
\* removal fails and nothing is removed
RemoveDir(dir, ok) ==
    IF ok THEN [p \in {f \in DOMAIN files : ~IsUnder(f, dir)} |-> files[p]] ELSE files

\* cleanupAllStreamingFiles (part_002:210-222, conversationLoader.ts:425-437)
\* with the outcome of removeDir: the project's streaming directory is removed
\* and then the whole registry is cleared; a failed removal is logged and
\* nothing else is done
CleanupAllStreamingFilesReturns(encodedProjectName, ok) ==
    /\ GetStreamingDir(encodedProjectName) # NoPath
    /\ files' = RemoveDir(GetStreamingDir(encodedProjectName), ok)
    /\ logged' = [r \in RequestIds |->
                     IF GetStreamingFilePath(encodedProjectName, r) \in DOMAIN files /\ ok
                     THEN <<>> ELSE logged[r]]
    /\ requestStatuses' = IF ok THEN [r \in RequestIds |-> 0] ELSE requestStatuses
    /\ UNCHANGED <<env, info, requestAbortControllers, aborted, run, connected, live, sweeper>>
    /\ UNCHANGED frontendVars

CleanupAllStreamingFiles(encodedProjectName) ==
    \E ok \in BOOLEAN : CleanupAllStreamingFilesReturns(encodedProjectName, ok)

\* the server of two projects with the shutdown cleanup called at any moment
ShutdownNext ==
    \/ \E q \in Runs, rid \in RequestIds, wd \in TwoProjects : HandleChatRequest(q, rid, wd)
    \/ \E q \in Runs : InitializeStreaming(q)
    \/ \E q \in Runs : PullData(q)
    \/ \E q \in Runs : PullEnd(q)
    \/ \E q \in Runs : PullError(q)
    \/ \E q \in Runs : AppendMessageWrite(q)
    \/ \E q \in Runs : AppendMessageUpdate(q)
    \/ \E P \in TwoProjects : CleanupAllStreamingFiles(P)

SpecShutdown == Init /\ [][ShutdownNext]_vars

\* ------------------------------------------ chat.ts: authentication modes
\* POST /api/chat with an authMode
HandleChatRequestAs(q, rid, wd, authMode) ==
    /\ ChatRequestArrivesAs(q, rid, wd, authMode)
    /\ UNCHANGED frontendVars

\* the server whose requests name any authentication mode
AuthNext ==
    \/ \E q \in Runs, rid \in RequestIds, wd \in Projects \cup {Null}, authMode \in AuthModes :
          HandleChatRequestAs(q, rid, wd, authMode)
    \/ \E q \in Runs : InitializeStreaming(q)
    \/ \E q \in Runs : PullData(q)
    \/ \E q \in Runs : PullEnd(q)
    \/ \E q \in Runs : PullError(q)
    \/ \E q \in Runs : AppendMessageWrite(q)
    \/ \E q \in Runs : AppendMessageUpdate(q)

SpecAuth == Init /\ [][AuthNext]_vars

\* ------------------------------------------ a server started over old logs
\* records a stopped server process can leave in a log: whole records, and a
\* record cut short by the stop, with or without the newline of a later write
TornRecord == <<"{", "claude_json">>
LeftoverPieces ==
    { Stringify(ClaudeJson("a")) \o <<NL>>,
      Stringify(DoneResponse) \o <<NL>>,
      TornRecord \o <<NL>>,
      TornRecord }

\* pieces in a leftover log, at most
MaxLeftover == 2

RECURSIVE LeftoverTextsOf(_)
LeftoverTextsOf(n) ==
    IF n = 0 THEN {<<>>}
    ELSE LET shorter == LeftoverTextsOf(n - 1)
         IN  shorter \cup {t \o piece : t \in shorter, piece \in LeftoverPieces}

LeftoverTexts == LeftoverTextsOf(MaxLeftover)

\* the registry is in memory and the logs are on disk: a server that starts
\* finds the log of r1 as the process before it left it
InitRestart ==
    /\ env = HomeEnv
    /\ requestStatuses = [r \in RequestIds |-> 0]
    /\ info = [q \in Runs |-> NewInfo(NoPath)]
    /\ \E text \in LeftoverTexts : files = [p \in {GetStreamingFilePath("p1", "r1")} |-> text]
    /\ sweeper = IdleSweeper
    /\ requestAbortControllers = [r \in RequestIds |-> 0]
    /\ aborted = [q \in Runs |-> FALSE]
    /\ run = [q \in Runs |-> IdleRun]
    /\ connected = [q \in Runs |-> FALSE]
    /\ live = [q \in Runs |-> <<>>]
    /\ logged = [r \in RequestIds |-> <<>>]
    /\ client = IdleClient
    /\ processed = <<>>
    /\ net = TRUE

\* one request served by the restarted server
RestartNext ==
    \/ \E wd \in Projects \cup {Null} : HandleChatRequest(ClientRun, "r1", wd)
    \/ InitializeStreaming(ClientRun)
    \/ PullData(ClientRun)
    \/ PullEnd(ClientRun)
    \/ PullError(ClientRun)
    \/ AppendMessageWrite(ClientRun)
    \/ AppendMessageUpdate(ClientRun)

SpecRestart == InitRestart /\ [][RestartNext]_vars

\* ------------------------------------------------ the delays of the retries
\* values of Math.random() * 1000: the ends of [0, 1000) and one between
Randoms == {0, 500, 999}

\* the options a page may create the hook with: the defaults, a cap below the
\* second delay, and a first delay below the jitter
OptionChoices ==
    { DefaultOptions,
      Options(initialRetryDelay, 3000),
      Options(100, maxRetryDelay) }

\* the retry timer fires after the delay it was set with (part_000:309-316):
\* calculateRetryDelay was called with the counter the failed attempt raised
TimerElapses ==
    /\ client.pc = "timer"
    /\ \E random \in Randoms :
         client' = AttemptRecovery(
             [client EXCEPT !.delays =
                 Append(@, CalculateRetryDelay(client.options, client.retryCount, random))])
    /\ UNCHANGED <<serverVars, processed, net>>

\* a page whose hook has one of the options
InitBackoff ==
    /\ env = HomeEnv
    /\ requestStatuses = [r \in RequestIds |-> 0]
    /\ info = [q \in Runs |-> NewInfo(NoPath)]
    /\ files = [p \in {} |-> <<>>]
    /\ sweeper = IdleSweeper
    /\ requestAbortControllers = [r \in RequestIds |-> 0]
    /\ aborted = [q \in Runs |-> FALSE]
    /\ run = [q \in Runs |-> IdleRun]
    /\ connected = [q \in Runs |-> FALSE]
    /\ live = [q \in Runs |-> <<>>]
    /\ logged = [r \in RequestIds |-> <<>>]
    /\ \E options \in OptionChoices : client = [IdleClient EXCEPT !.options = options]
    /\ processed = <<>>
    /\ net = TRUE

\* a turn whose request never reaches the server, and its recovery
BackoffNext ==
    \/ SendMessageFails
    \/ StatusPolled
    \/ TimerElapses
    \/ NetworkChanges

SpecBackoff == InitBackoff /\ [][BackoffNext]_vars

\* ------------------------------------------------------------------ claims

\* C1 (as claimed): for a registered request whose log holds N appended
\* messages, resume(requestId, k) answers 200 with the log entries k..N-1 in
\* append order for 0 <= k <= N, and with the empty sequence for k >= N.
C1_ResumeReturnsSuffix ==
    \A rid \in RequestIds :
        Registered(rid) =>
            \A k \in 0..MaxFromIndex :
                LET resp == HandleResumeRequest(rid, k)
                    N == Len(logged[rid])
                IN  /\ resp.code = 200
                    /\ resp.messages = IF k <= N THEN SubSeq(logged[rid], k + 1, N) ELSE <<>>

\* C2 (as claimed): at every moment what a run has written on its live /chat
\* stream is a prefix of the log of its request.
C2_LiveIsPrefixOfLog ==
    \A q \in Runs : Started(q) => IsPrefix(live[q], Log(run[q].requestId))

\* C3 (as claimed): when a controller has exited, the request it registered
\* has a terminal registry status and a log that ends in a terminal entry.
C3_ExitLeavesTerminal ==
    \A q \in Runs :
        (run[q].pc = "done" /\ requestStatuses[run[q].requestId] = q) =>
            /\ info[q].status \in TerminalStatuses
            /\ Log(run[q].requestId) # <<>>
            /\ IsTerminal(Log(run[q].requestId)[Len(Log(run[q].requestId))])

\* what the message processor has been handed, as messages: the lines that
\* are whole records
HandedEntries == ParseFrom(processed, 0)

\* C4 (as claimed): a turn that ends after a successful resume has seen
\* isComplete true; a resume with isComplete false is followed by more polling.
C4_RecoveryEndsOnlyWhenComplete ==
    (client.pc = "done" /\ client.outcome = "recovered") => client.isComplete

\* C5 (as claimed): the offset sent to resume is the number of log entries the
\* processor has received, and after the recovery the processor has received
\* log entries in log order, none twice and none skipped.
C5_NoGapNoDuplicate ==
    /\ client.pc = "resume" => client.messageIndexRef = Len(HandedEntries)
    /\ client.outcome = "recovered" =>
           /\ Len(processed) = Len(HandedEntries)
           /\ IsPrefix(HandedEntries, Log(client.requestId))

\* C6 (as claimed): a controller that holds a non-terminal message for a
\* stream whose client is gone goes on to pull the next engine message, as
\* it does with a connected client.
C6_PersistsWithoutClient ==
    [][\A q \in Runs :
          (/\ run[q].pc = "update"
           /\ ~IsTerminal(run[q].pending)
           /\ run'[q].pc # "update") => run'[q].pc = "pull"]_vars

\* C7 (as claimed): a chat request whose requestId already has a registry
\* entry never registers, pulls from the engine or appends.
C7_DuplicateRejected ==
    \A q \in Runs :
        run[q].duplicate => run[q].pc \notin {"pull", "write", "update"}

\* C8 (as claimed): every running controller holds the handle stored under
\* its requestId, so no two running controllers share a requestId and no
\* exit removes another controller's handle.
C8_HandleExclusive ==
    \A q \in Runs : Running(q) => requestAbortControllers[run[q].requestId] = q

\* C9 (as claimed): once the status of a registered request is terminal, it
\* stays what it is and totalMessages does not decrease while the entry exists.
C9_TerminalIsStable ==
    [][\A rid \in RequestIds :
          (/\ Registered(rid)
           /\ GetRequestStatus(rid).status \in TerminalStatuses
           /\ Registered(rid)') =>
              /\ GetRequestStatus(rid)'.status = GetRequestStatus(rid).status
              /\ GetRequestStatus(rid)'.totalMessages >= GetRequestStatus(rid).totalMessages]_vars

\* C10 (as claimed): a log holds at most one terminal entry, and only as its
\* last entry.
C10_TerminalOnlyLast ==
    \A rid \in RequestIds :
        \A i \in 1..Len(Log(rid)) : IsTerminal(Log(rid)[i]) => i = Len(Log(rid))

\* C11 (as claimed): between appends, the log of a registered request holds
\* exactly the messages appended to it, the k-th at index k-1, and
\* totalMessages is their number.
C11_AppendMonotonic ==
    \A rid \in RequestIds :
        (/\ Registered(rid)
         /\ \A q \in Runs : ~(run[q].requestId = rid /\ run[q].pc = "update")) =>
            /\ Log(rid) = logged[rid]
            /\ GetRequestStatus(rid).totalMessages = Len(Log(rid))

\* C12 (as claimed): a resume response is a snapshot of one moment:
\* totalMessages is the length of the log the messages were read from, and
\* isComplete says whether that log holds the terminal entry.
C12_ResumeIsSnapshot ==
    \A rid \in RequestIds :
        Registered(rid) =>
            LET resp == HandleResumeRequest(rid, 0)
            IN  /\ resp.totalMessages = Len(resp.messages)
                /\ resp.isComplete <=> \E i \in 1..Len(resp.messages) : IsTerminal(resp.messages[i])

\* C13 (as claimed): an entry leaves the registry only when it is terminal and
\* older than the retention window at that moment, and no file is deleted
\* while it is the log of an in_progress entry.
C13_SweepsOnlyExpiredTerminal ==
    [][\A rid \in RequestIds :
          /\ (Registered(rid) /\ ~Registered(rid)') =>
                 /\ GetRequestStatus(rid).status # IN_PROGRESS
                 /\ GetRequestStatus(rid).age > CLEANUP_INTERVAL_MS
          /\ (/\ Registered(rid)
              /\ GetRequestStatus(rid).status = IN_PROGRESS
              /\ Exists(GetRequestStatus(rid).filePath)) =>
                 GetRequestStatus(rid).filePath \in DOMAIN files']_vars

\* C14 (as claimed): when abort is signalled for an in_progress request and
\* the engine acknowledges it, the controller leaves Aborted as the last
\* entry of the log and the registry status aborted.
C14_AbortEndsAborted ==
    [][\A q \in Runs :
          (/\ run[q].engine = "aborted"
           /\ run[q].pc # "done"
           /\ run'[q].pc = "done"
           /\ requestStatuses[run[q].requestId] = q) =>
              /\ GetRequestStatus(run[q].requestId)'.status = ABORTED
              /\ files' = files
              /\ Log(run[q].requestId) # <<>>
              /\ Log(run[q].requestId)[Len(Log(run[q].requestId))] = AbortedResponse]_vars

\* C15: status(requestId) for a requestId without registry entry answers
\* 200 with status not_found and totalMessages 0, and the poll leaves the
\* registry, the info objects and the files as they were
C15_StatusOfUnknownId ==
    /\ [](\A rid \in RequestIds : ~Registered(rid) =>
             HandleStatusRequest(rid) =
                 [code |-> 200, requestId |-> rid, status |-> NOT_FOUND, totalMessages |-> 0])
    /\ [][StatusPolled => UNCHANGED <<requestStatuses, info, files>>]_vars

\* the hook polled the status of a requestId the server never registered
C15_Witness ==
    /\ client.polled = NOT_FOUND
    /\ client.attempts = 1
    /\ ~Registered(client.requestId)

\* C16: resume(requestId, k) for a requestId without registry entry (evicted
\* or never registered) answers 200 with no messages, not an error
C16_ResumeOfUnknownId ==
    \A rid \in RequestIds : ~Registered(rid) =>
        \A k \in 0..MaxFromIndex :
            /\ HandleResumeRequest(rid, k).code = 200
            /\ HandleResumeRequest(rid, k).messages = <<>>

\* C17: with the sweeper's timer running, a registered entry whose status is
\* terminal is eventually evicted, and status(requestId) then reports
\* not_found
C17_TerminalEventuallyEvicted ==
    \A rid \in RequestIds :
        (Registered(rid) /\ GetRequestStatus(rid).status # IN_PROGRESS)
            ~> (~Registered(rid) /\ HandleStatusRequest(rid).status = NOT_FOUND)

\* C18: in a recovery sequence, with N the attempts that failed with a
\* network error so far (the local retryCount): while attempt N+1 is under
\* way N < maxRetries and N+1 attempts were made; while the retry timer is
\* pending N attempts were made; a sequence that ended made
\* min(N+1, maxRetries) attempts, reports success only with N < maxRetries,
\* and with N = maxRetries reports RecoveryFailed; after its end the client
\* takes no further step
C18_AttemptsWithinBudget ==
    /\ []((client.error # NoError /\ IsNetworkError(client.error)) =>
            /\ client.pc \in {"status", "resume"} =>
                   /\ client.retryCount < maxRetries
                   /\ client.attempts = client.retryCount + 1
            /\ client.pc = "timer" =>
                   /\ client.retryCount <= maxRetries
                   /\ client.attempts = client.retryCount
            /\ client.pc = "done" =>
                   /\ client.attempts = IF client.retryCount + 1 < maxRetries
                                        THEN client.retryCount + 1 ELSE maxRetries
                   /\ client.outcome = "recovered" =>
                          /\ client.retryCount < maxRetries
                          /\ "onRecoverySuccess" \in client.fired
                   /\ client.retryCount = maxRetries =>
                          /\ client.outcome = "failed"
                          /\ "onRecoveryFailed" \in client.fired)
    /\ [][client.pc = "done" => client' = client]_vars

\* every one of the maxRetries attempts failed with a network error
C18_Witness ==
    /\ client.pc = "done"
    /\ client.outcome = "failed"
    /\ client.retryCount = maxRetries
    /\ client.attempts = maxRetries
    /\ "onRecoveryFailed" \in client.fired

\* the third attempt succeeded after two that failed with a network error
C18_WitnessSuccess ==
    /\ client.pc = "done"
    /\ client.outcome = "recovered"
    /\ client.retryCount = 2
    /\ client.attempts = 3

\* C19: once the status poll of a recovery has reported not_found the
\* recovery has failed for good: handleNetworkError has returned false,
\* onRecoveryFailed was called and onRecoverySuccess was not, isRecovering is
\* false, no resume call is made and no attempt follows, whatever the retry
\* count
C19_NotFoundFailsForGood ==
    /\ [](client.polled = NOT_FOUND =>
            /\ client.pc = "done"
            /\ client.outcome = "failed"
            /\ "onRecoveryFailed" \in client.fired
            /\ "onRecoverySuccess" \notin client.fired
            /\ "onResumeMessages" \notin client.fired
            /\ client.resumedFrom = IdleClient.resumedFrom
            /\ ~client.state.isRecovering)
    /\ [][client.polled = NOT_FOUND => client' = client]_vars

\* not_found was reported to the third attempt
C19_Witness ==
    /\ client.polled = NOT_FOUND
    /\ client.retryCount = 2
    /\ client.attempts = 3
    /\ client.pc = "done"

\* C20: when the stream fails with an error that is no network error,
\* handleNetworkError returns false at once: no status poll and no resume
\* call were made, no timer is pending, no callback was called, and
\* isRecovering, retryCount and lastError are as they were
C20_NonNetworkErrorReturnsAtOnce ==
    /\ []((client.error # NoError /\ ~IsNetworkError(client.error)) =>
            /\ client.pc = "done"
            /\ client.outcome = "failed"
            /\ client.attempts = 0
            /\ client.polled = "none"
            /\ client.resumedFrom = IdleClient.resumedFrom
            /\ client.fired = {}
            /\ client.state = InitialState)
    /\ [][(client.error # NoError /\ ~IsNetworkError(client.error)) => client' = client]_vars

\* the open stream broke with TypeError "Load failed" after a line was read
C20_Witness ==
    /\ client.error = [name |-> "TypeError", message |-> "Load failed"]
    /\ client.messageIndexRef > 0
    /\ client.pc = "done"

\* C21: once the user has stopped the turn while its recovery was in flight
\* (and after a next send), that recovery issues no status call and no resume
\* call, hands no message to the message processor, and reads no cursor
C21_StopCancelsRecovery ==
    [][client.stoppedAt \in {"status", "resume", "timer"} =>
          /\ ~(client.pc # "status" /\ client'.pc = "status")
          /\ ~(client.pc # "resume" /\ client'.pc = "resume")
          /\ processed' = processed
          /\ client'.fromIndex = client.fromIndex]_vars

\* C22: after cleanup has run during a recovery no retry timer is pending and
\* no recovery attempt is started, also when cleanup ran while a status or
\* resume call was in flight
C22_NoRetryAfterCleanup ==
    /\ [](client.unmountedAt \in {"status", "resume", "timer"} => client.pc # "timer")
    /\ [][client.unmountedAt \in {"status", "resume", "timer"} =>
             ~(client.pc # "status" /\ client'.pc = "status")]_vars

\* C23: when a run whose entry is registered exits, the last entry of its log
\* and the status of its entry are those of the way the engine's sequence
\* ended: done and completed after a normal end, aborted and aborted after an
\* AbortError, error and failed after another exception; and the update for a
\* data message leaves the status as it was
C23_EndDecidesTerminal ==
    [][\A q \in Runs :
         LET rid == run[q].requestId
             last == Log(rid)[Len(Log(rid))]
         IN  /\ (/\ run[q].pc \notin {"idle", "done"} /\ run'[q].pc = "done"
                  /\ run[q].engine # "running"
                  /\ requestStatuses[rid] = q) =>
                     /\ Log(rid) # <<>>
                     /\ run[q].engine = "ended" =>
                            last = DoneResponse /\ GetRequestStatus(rid)'.status = COMPLETED
                     /\ run[q].engine = "aborted" =>
                            last = AbortedResponse /\ GetRequestStatus(rid)'.status = ABORTED
                     /\ run[q].engine = "failed" =>
                            last = ErrorResponse /\ GetRequestStatus(rid)'.status = FAILED
             /\ (run[q].pc = "update" /\ run[q].pending.type = "claude_json") =>
                     info'[run[q].infoRef].status = info[run[q].infoRef].status]_vars

\* the status a log stands for: that of its last entry when it is a terminal
\* marker, else in_progress
StatusOfLog(log) ==
    IF log = <<>> THEN IN_PROGRESS ELSE StatusAfter(IN_PROGRESS, log[Len(log)])

\* C24: in every state the status of a registered entry is terminal exactly
\* when the last entry of its log is the terminal marker of that status
C24_StatusAgreesWithLog ==
    \A rid \in RequestIds : Registered(rid) =>
        GetRequestStatus(rid).status = StatusOfLog(Log(rid))

C26_RegisteredWhileRunning ==
    \A q \in Runs : run[q].pc \in {"pull", "write", "update"} =>
        /\ Registered(run[q].requestId)
        /\ HandleStatusRequest(run[q].requestId).status # NOT_FOUND

\* C27: a requestId has an AbortController in requestAbortControllers
\* exactly in the states in which it has a registry entry with status
\* in_progress
C27_HandleIffInProgress ==
    \A rid \in RequestIds :
        requestAbortControllers[rid] # 0 <=>
            (Registered(rid) /\ GetRequestStatus(rid).status = IN_PROGRESS)

\* C28: when a run exits, for whatever reason, the map holds no
\* AbortController for its requestId after the step; and in every state an
\* AbortController in the map was stored by a run of that requestId that has
\* not exited
C28_NoHandleAfterExit ==
    /\ [][\A q \in Runs :
             (run[q].pc \notin {"idle", "done"} /\ run'[q].pc = "done") =>
                 requestAbortControllers'[run[q].requestId] = 0]_vars
    /\ [](\A rid \in RequestIds : requestAbortControllers[rid] # 0 =>
             /\ run[requestAbortControllers[rid]].requestId = rid
             /\ run[requestAbortControllers[rid]].pc \notin {"idle", "done"})

\* a run has exited without a terminal entry (failed log write, or failed
\* write on the live stream) and its requestId has no AbortController
C28_Witness ==
    \E q \in Runs :
        /\ run[q].pc = "done"
        /\ requestStatuses[run[q].requestId] = q
        /\ info[q].status = IN_PROGRESS
        /\ requestAbortControllers[run[q].requestId] = 0

\* the ids in a sequence
Range(seq) == {seq[i] : i \in 1..Len(seq)}

\* C29: when the removal of an expired entry's file has returned or failed,
\* the entry is evicted in that step, also when the file is still there; the
\* sweep goes on to the next collected id that has an entry, or ends when
\* there is none; and the id is not taken up again
C29_FailedRemovalStillEvicts ==
    [][(sweeper.pc = "remove" /\ sweeper' # sweeper) =>
          LET rid == Head(sweeper.expiredRequests)
              rest == Tail(sweeper.expiredRequests)
          IN  /\ requestStatuses'[rid] = 0
              /\ \A r \in RequestIds \ {rid} : requestStatuses'[r] = requestStatuses[r]
              /\ rid \notin Range(sweeper'.expiredRequests)
              /\ IF \E i \in 1..Len(rest) : requestStatuses'[rest[i]] # 0
                 THEN /\ sweeper'.pc = "remove"
                      /\ requestStatuses'[Head(sweeper'.expiredRequests)] # 0
                      /\ \E i \in 1..Len(rest) :
                            sweeper'.expiredRequests = SubSeq(rest, i, Len(rest))
                 ELSE sweeper'.pc = "idle"]_vars

\* the removal of the first file failed: its entry is evicted, the file is
\* still there, and the sweep is at the second expired entry
C29_Witness ==
    /\ sweeper.pc = "remove"
    /\ \E rid \in RequestIds \ Range(sweeper.expiredRequests) :
          /\ ~Registered(rid)
          /\ Exists(GetStreamingFilePath("p1", rid))

\* the records of a text: its non-blank lines
Records(text) == FilterNonBlank(SplitLines(Trim(text)))

\* C30: reading a log that holds lines that do not parse does not fail: for
\* every fromIndex it returns the messages of the well-formed records at or
\* after fromIndex, all of them and in the order of the log
C30_MalformedRecordSkipped ==
    \A k \in 0..MaxFromIndex :
        LET text == files[GetStreamingFilePath("p1", "r1")]
            wellFormed == SelectSeq(SubSeq(Records(text), k + 1, Len(Records(text))),
                                    WellFormed)
            messages == ReadStreamingFile("p1", "r1", k)
        IN  /\ Len(messages) = Len(wellFormed)
            /\ \A i \in 1..Len(messages) :
                  /\ messages[i] # SyntaxError
                  /\ Stringify(messages[i]) = wellFormed[i]

\* the log holds a record that does not parse between two that do
C30_Witness ==
    LET lines == Records(files[GetStreamingFilePath("p1", "r1")])
    IN  /\ Len(lines) = 3
        /\ WellFormed(lines[1])
        /\ ~WellFormed(lines[2])
        /\ WellFormed(lines[3])
        /\ Len(ReadStreamingFile("p1", "r1", 0)) = 2

\* C31: the delay of the timer set after a failed attempt raised the retry
\* counter to k is min(initialDelay * 2^k, maxDelay) + j with 0 <= j < 1000,
\* and so at most maxDelay + 1000
C31_DelayIsCappedBackoff ==
    /\ Len(client.delays) <= client.retryCount
    /\ \A k \in 1..Len(client.delays) :
          LET backoff == client.options.initialRetryDelay * Pow2(k)
              capped == IF backoff <= client.options.maxRetryDelay
                        THEN backoff ELSE client.options.maxRetryDelay
          IN  /\ client.delays[k] - capped \in 0..999
              /\ client.delays[k] < client.options.maxRetryDelay + 1000

\* with the default options every timer of an exhausted sequence has fired,
\* the last one with the capped delay
C31_Witness ==
    /\ client.options = DefaultOptions
    /\ Len(client.delays) = maxRetries
    /\ client.delays[1] = 2999
    /\ client.delays[maxRetries] = 30000
    /\ client.outcome = "failed"

C33_ResumeAdvancesCursor ==
    [][(client.pc = "resume" /\ client'.outcome = "recovered") =>
          client'.messageIndexRef =
              client.messageIndexRef + (Len(processed') - Len(processed))]_vars

\* C34: while the response is read, the lines handed to the message
\* processor are the first messages of the live stream, whole and in order,
\* and the cursor is their number
C34_CursorCountsMessages ==
    client.pc = "streaming" =>
        /\ client.messageIndexRef <= Len(live[ClientRun])
        /\ processed = StringifyAll(SubSeq(live[ClientRun], 1, client.messageIndexRef))

\* C35: a live stream that is still open carries no terminal message, and
\* when an activation whose stream has kept its reader closes the stream, the
\* stream carries one terminal message, its last
TerminalsOf(stream) == SelectSeq(stream, IsTerminal)

C35_OneTerminalLast ==
    /\ [](\A q \in Runs : run[q].pc # "done" => TerminalsOf(live[q]) = <<>>)
    /\ [][\A q \in Runs :
            (run[q].pc # "done" /\ run'[q].pc = "done" /\ connected[q]) =>
                /\ Len(TerminalsOf(live'[q])) = 1
                /\ IsTerminal(live'[q][Len(live'[q])])]_vars

\* a stream closed by handleChatRequest's catch after a failed write of the
\* error entry, and one closed after an abort
C35_Witness ==
    /\ run[1].pc = "done" /\ run[1].encodedProjectName # Null
    /\ logged[run[1].requestId] = <<>>
    /\ live[1] = <<ErrorResponse>>
    /\ run[2].pc = "done"
    /\ Len(live[2]) = 2 /\ live[2][2] = AbortedResponse

\* C36: isRecovering is set only while the promise of handleNetworkError is
\* pending (a status or resume call in flight, a retry timer armed or
\* cleared), and then the state's retryCount is between 1 and maxRetries;
\* once the promise has resolved, isRecovering is reset and retryCount is 0
Unresolved(c) == c.pc \in {"status", "resume", "timer", "cancelled"}

C36_RecoveringWhileUnresolved ==
    /\ client.state.isRecovering =>
           /\ Unresolved(client)
           /\ client.state.retryCount \in 1..maxRetries
    /\ (client.pc = "done" /\ "onNetworkError" \in client.fired) =>
           /\ ~client.state.isRecovering
           /\ client.state.retryCount = 0

\* the last attempt the budget allows is waiting for its status call
C36_Witness ==
    /\ client.pc = "status"
    /\ client.state.isRecovering
    /\ client.state.retryCount = maxRetries
    /\ client.retryCount = maxRetries - 1

\* C37: when each status call, resume call and retry timer of a recovery
\* comes to its end and no cleanup or second turn interferes, a pending
\* promise of handleNetworkError resolves
C37_RecoveryResolves == Unresolved(client) ~> client.pc = "done"

\* a promise resolved with false after the whole budget of attempts, the
\* network being back at the end
C37_Witness ==
    /\ client.pc = "done" /\ client.outcome = "failed"
    /\ client.attempts = maxRetries
    /\ client.retryCount = maxRetries
    /\ net

\* C38: a call of cleanupAllStreamingFiles(P) leaves every registry entry
\* whose log is outside P's streaming directory as it was, and a call whose
\* removal fails leaves the whole registry as it was
C38_CleanupOnlyOwnProject ==
    [][\A P \in TwoProjects, ok \in BOOLEAN :
          CleanupAllStreamingFilesReturns(P, ok) =>
              /\ \A rid \in RequestIds :
                    (Registered(rid) /\ ~IsUnder(GetRequestStatus(rid).filePath, GetStreamingDir(P)))
                        => requestStatuses'[rid] = requestStatuses[rid]
              /\ ~ok => requestStatuses' = requestStatuses]_vars

\* C39: for every registered request the resume handler finds a project name
\* in the entry's filePath, after the first "projects" segment, and the file
\* it reads under that name is the entry's filePath, the file the controller
\* appends to
C39_ResumeReadsTheLog ==
    \A rid \in RequestIds :
        Registered(rid) =>
            LET pathParts == GetRequestStatus(rid).filePath
                projectsIndex == IndexOf(pathParts, "projects")
            IN  /\ projectsIndex # -1
                /\ projectsIndex + 2 < Len(pathParts)
                /\ GetStreamingFilePath(pathParts[projectsIndex + 2], rid) = pathParts

\* C40: with the server started with an API key, ANTHROPIC_API_KEY is absent
\* from the environment exactly while some request of subscription mode that
\* has passed its authentication block is running
InSubscriptionMode(q) ==
    Running(q) /\ run[q].authMode = "subscription" /\ run[q].authConfigured

C40_KeyAbsentWhileSubscription ==
    (env.ANTHROPIC_API_KEY = NoKey) <=> (\E q \in Runs : InSubscriptionMode(q))

====
